---- MODULE Spec2Model ----
(***************************************************************************)
(* Model of drf_csv_renderer/views.py: CSVListView.get_csv_data with its   *)
(* serialized stream, and CSVGenericView.apply_rows_limit, together with   *)
(* the consumer that pulls the lazy sequences they return.                 *)
(***************************************************************************)
EXTENDS Integers, Sequences, FiniteSets, TLC

\* ------------------------------------------------------------------ bounds
MaxRecords == 3
MaxLimit == 2
MaxChunk == 2
MaxOffset == 1
MaxPageLimit == 1
MaxPulls == 5
MaxSpin == 4

\* views.py:57  getattr(self, 'csv_streaming_chunk_size', 1000)
DefaultChunkSize == 1000

\* ------------------------------------------------------------- primitives
Ids == {"a", "b"}

None == <<>>
Some(x) == <<x>>
Val(o) == o[1]

Min(a, b) == IF a < b THEN a ELSE b

\* all sequences over S of length 0..n
SeqsUpTo(S, n) == UNION {[1..k -> S] : k \in 0..n}

\* ------------------------------------------------------ rows and records
\* queryset.values(): the raw field mapping of one record
Values(obj) == [src |-> "values", id |-> obj]

\* the stream yielding the raw field mapping instead of serializer.data
SerializeOne_Raw(obj) == Values(obj)

\* line 63-64: serializer_class(obj, context=...).data, one record
SerializeOne(obj) == [src |-> "serializer", id |-> obj]

\* line 42-43: get_serializer(queryset, many=True).data, the whole list in one call
SerializeMany(objs) == [i \in 1..Len(objs) |-> [src |-> "serializer", id |-> objs[i]]]

\* line 45: list(queryset.values())
ValuesList(objs) == [i \in 1..Len(objs) |-> Values(objs[i])]

\* ------------------------------------------------------ error values
NeedsChunkNeedle == <<"chunk_size", "must", "be", "provided">>

NeedsChunkMsg == <<"chunk_size", "must", "be", "provided", "when", "using", "iterator">>

OtherMsg == <<"chunk_size", "must", "be", "strictly", "positive">>

\* "chunk_size must be provided" in str(e)
Contains(msg, needle) ==
  \E i \in 0..(Len(msg) - Len(needle)) : SubSeq(msg, i + 1, i + Len(needle)) = needle

CursorErrors ==
  [type : {"ValueError", "DatabaseError"}, msg : {NeedsChunkMsg, OtherMsg}]

\* outcome of queryset.iterator(...): opened, or an error raised by the call
CursorOutcomes == {None} \cup {Some(e) : e \in CursorErrors}

\* the message compared for equality instead of searched
IsNeedsChunk_ExactMessage(e) == e.type = "ValueError" /\ e.msg = NeedsChunkNeedle

\* every ValueError taken for the chunk_size precondition
IsNeedsChunk_AnyValueError(e) == e.type = "ValueError"

\* except ValueError as e: if "chunk_size must be provided" in str(e)
IsNeedsChunk(e) == e.type = "ValueError" /\ Contains(e.msg, NeedsChunkNeedle)

SetupError == [type |-> "AssertionError", msg |-> <<"serializer_class", "missing">>]

TransformError == [type |-> "SerializerError", msg |-> <<"to_representation", "failed">>]

FetchError == [type |-> "DatabaseError", msg |-> <<"fetch", "failed">>]

ListHasNoValues == [type |-> "AttributeError", msg |-> <<"list", "has", "no", "values">>]

\* ------------------------------------------------------ pure parts of the views
\* a slice that keeps one item too many
Slice_OffByOne(s, n) == SubSeq(s, 1, Min(n + 1, Len(s)))

\* queryset[:rows_count] and data[:rows_count], rows_count >= 0
Slice(s, n) == SubSeq(s, 1, Min(n, Len(s)))

\* the row limit never applied to the queryset
LimitQueryset_Ignored(q, rc) == q

\* if rows_count is not None: queryset = queryset[:rows_count]
LimitQueryset(q, rc) == IF rc = None THEN q ELSE Slice(q, Val(rc))

\* self.paginate_queryset(queryset): None without a paginator, else the page as a list
Paginate(q, pag) ==
  IF pag = None THEN None
  ELSE Some(SubSeq(q, Min(Val(pag).offset, Len(q)) + 1,
                   Min(Val(pag).offset + Val(pag).limit, Len(q))))

\* the non-streaming branch of get_csv_data, lines 33-45
NonStreaming(q, rc, ser, pag) ==
  LET qs == LimitQueryset(q, rc)
      page == Paginate(qs, pag)
      target == IF page # None THEN Val(page) ELSE qs
  IN IF ser THEN [ok |-> TRUE, rows |-> SerializeMany(target), fetched |-> Len(target)]
     ELSE IF page # None
          THEN [ok |-> FALSE, error |-> ListHasNoValues, fetched |-> Len(target)]
          ELSE [ok |-> TRUE, rows |-> ValuesList(target), fetched |-> Len(target)]

\* ------------------------------------------------------------------ state
VARIABLES
  view,                      \* "list" (CSVListView) or "generic" (CSVGenericView)
  query,                     \* records of filter_queryset(get_queryset()), store order
  rows_count,                \* get_csv_rows_count(): None or Some(n)
  csv_streaming,             \* self.csv_streaming
  serializer_class,          \* TRUE iff self.serializer_class is set
  paginator,                 \* None, or Some([offset, limit])
  csv_streaming_chunk_size,  \* None (attribute absent) or Some(n)
  data,                      \* argument of apply_rows_limit: [oid, kind, items]
  pc,                        \* "init", "returned", "raised" : the view call
  result,                    \* what the call returned: [oid, kind, items]
  gen,                       \* lazy sequence: [kind, state]
  source,                    \* the records / items the lazy sequence draws from
  cursors,                   \* queryset.iterator calls made: Seq([kind, chunk_size, raised])
  fetched,                   \* records fetched from the store so far
  pos,                       \* items consumed from the upstream iterator
  delivered,                 \* rows yielded to the consumer, in order
  pulls,                     \* next() calls made by the consumer
  lastAdv,                   \* upstream items taken by the latest pull
  lastTr,                    \* transform invocations made by the latest pull
  transforms,                \* transform invocations in total
  contexts,                  \* get_serializer_context() calls in total
  error,                     \* None or Some(error raised)
  raisedAt                   \* "none", "call", "pull"

vars == <<view, query, rows_count, csv_streaming, serializer_class, paginator,
          csv_streaming_chunk_size, data, pc, result, gen, source, cursors, fetched,
          pos, delivered, pulls, lastAdv, lastTr, transforms, contexts, error, raisedAt>>

inputs == <<view, query, rows_count, csv_streaming, serializer_class, paginator,
            csv_streaming_chunk_size, data>>

Queries == SeqsUpTo(Ids, MaxRecords)

RowLimits == {None} \cup {Some(n) : n \in 0..MaxLimit}

Paginators == {None} \cup {Some(p) : p \in [offset : 0..MaxOffset, limit : 1..MaxPageLimit]}

ChunkSizes == {None} \cup {Some(n) : n \in 1..MaxChunk}

\* "endless": a lazy sequence that never ends, giving its items round and round
DataKinds == {"list", "generator", "endless", "tuple", "str", "bytes", "dict", "int"}

NoData == [oid |-> 0, kind |-> "int", items |-> <<>>]

NoGen == [kind |-> "none", state |-> "none"]

InitDynamic ==
  /\ pc = "init"
  /\ result = NoData
  /\ gen = NoGen
  /\ source = <<>>
  /\ cursors = <<>>
  /\ fetched = 0
  /\ pos = 0
  /\ delivered = <<>>
  /\ pulls = 0
  /\ lastAdv = 0
  /\ lastTr = 0
  /\ transforms = 0
  /\ contexts = 0
  /\ error = None
  /\ raisedAt = "none"

InitList ==
  /\ view = "list"
  /\ query \in Queries
  /\ rows_count \in RowLimits
  /\ csv_streaming \in BOOLEAN
  /\ serializer_class \in BOOLEAN
  /\ paginator \in Paginators
  /\ csv_streaming_chunk_size \in ChunkSizes
  /\ data = NoData

InitGeneric ==
  /\ view = "generic"
  /\ query = <<>>
  /\ rows_count \in RowLimits
  /\ csv_streaming = FALSE
  /\ serializer_class = FALSE
  /\ paginator = None
  /\ csv_streaming_chunk_size = None
  /\ data \in [oid : {1}, kind : DataKinds, items : Queries]
  /\ data.kind = "endless" => data.items # <<>>

Init == (InitList \/ InitGeneric) /\ InitDynamic

\* ------------------------------------------------ CSVListView.get_csv_data
\* The whole call.  Streaming with a serializer returns the generator of
\* _get_serialized_stream unstarted; streaming without one builds the generator
\* expression over queryset.values(), whose iter() evaluates the queryset at once;
\* non-streaming materializes the list.
get_csv_data ==
  /\ view = "list"
  /\ pc = "init"
  /\ LET qs == LimitQueryset(query, rows_count)
         ns == NonStreaming(query, rows_count, serializer_class, paginator)
     IN IF csv_streaming
        THEN /\ pc' = "returned"
             /\ result' = [oid |-> 2, kind |-> "generator", items |-> <<>>]
             /\ error' = None
             /\ raisedAt' = "none"
             /\ IF serializer_class
                THEN /\ gen' = [kind |-> "serialized", state |-> "created"]
                     /\ source' = qs
                     /\ fetched' = 0
                ELSE /\ gen' = [kind |-> "raw", state |-> "created"]
                     /\ source' = ValuesList(qs)
                     /\ fetched' = Len(qs)
        ELSE /\ gen' = gen
             /\ source' = source
             /\ fetched' = ns.fetched
             /\ IF ns.ok
                THEN /\ pc' = "returned"
                     /\ result' = [oid |-> 2, kind |-> "list", items |-> ns.rows]
                     /\ error' = None
                     /\ raisedAt' = "none"
                ELSE /\ pc' = "raised"
                     /\ result' = result
                     /\ error' = Some(ns.error)
                     /\ raisedAt' = "call"
  /\ UNCHANGED <<inputs, cursors, pos, delivered, pulls, lastAdv, lastTr, transforms, contexts>>

\* ------------------------------------- CSVListView._get_serialized_stream
\* the fallback tried once more when the chunked iterator() raises the same precondition
OpenCursor_RetryAgain(attr, c1, c2, g) ==
  LET chunk_size == IF attr = None THEN DefaultChunkSize ELSE Val(attr)
      first == [kind |-> "default", chunk_size |-> 0, raised |-> c1]
      second == [kind |-> "chunked", chunk_size |-> chunk_size, raised |-> c2]
  IN IF c1 = None
     THEN [cursors |-> <<[kind |-> "default", chunk_size |-> g, raised |-> None]>>,
           error |-> None]
     ELSE IF ~IsNeedsChunk(Val(c1))
     THEN [cursors |-> <<first>>, error |-> c1]
     ELSE IF c2 # None /\ IsNeedsChunk(Val(c2))
     THEN [cursors |-> <<first, second,
                         [kind |-> "chunked", chunk_size |-> chunk_size, raised |-> None]>>,
           error |-> None]
     ELSE [cursors |-> <<first, second>>, error |-> c2]

\* the view's attribute never read: the chunked cursor always opened with the default
OpenCursor_DefaultOnly(attr, c1, c2, g) ==
  IF c1 = None
  THEN [cursors |-> <<[kind |-> "default", chunk_size |-> g, raised |-> None]>>,
        error |-> None]
  ELSE IF IsNeedsChunk(Val(c1))
       THEN [cursors |-> <<[kind |-> "default", chunk_size |-> 0, raised |-> c1],
                           [kind |-> "chunked", chunk_size |-> DefaultChunkSize,
                            raised |-> c2]>>,
             error |-> c2]
       ELSE [cursors |-> <<[kind |-> "default", chunk_size |-> 0, raised |-> c1]>>,
             error |-> c1]

\* lines 51-60: queryset.iterator(), with the chunk_size fallback.
\* c1, c2: what the default and the chunked iterator() call do; g: the fetch
\* granularity of a default cursor.
OpenCursor(attr, c1, c2, g) ==
  IF c1 = None
  THEN [cursors |-> <<[kind |-> "default", chunk_size |-> g, raised |-> None]>>,
        error |-> None]
  ELSE IF IsNeedsChunk(Val(c1))
       THEN LET chunk_size == IF attr = None THEN DefaultChunkSize ELSE Val(attr)
            IN [cursors |-> <<[kind |-> "default", chunk_size |-> 0, raised |-> c1],
                              [kind |-> "chunked", chunk_size |-> chunk_size, raised |-> c2]>>,
                error |-> c2]
       ELSE [cursors |-> <<[kind |-> "default", chunk_size |-> 0, raised |-> c1]>>,
             error |-> c1]

\* a record whose serializer raises is skipped and the loop goes on
LoopStep_SkipOnError(src, curs, f, p, fetchOk, trOk) ==
  LET chunk == curs[Len(curs)].chunk_size
      needFetch == p >= f
      f2 == IF needFetch THEN Min(f + chunk, Len(src)) ELSE f
  IN IF needFetch /\ ~fetchOk
     THEN [state |-> "raised", cursors |-> curs, fetched |-> f, pos |-> p,
           out |-> None, tr |-> 0, ctx |-> 0, error |-> Some(FetchError)]
     ELSE IF p >= Len(src)
     THEN [state |-> "done", cursors |-> curs, fetched |-> f2, pos |-> p,
           out |-> None, tr |-> 0, ctx |-> 0, error |-> None]
     ELSE IF trOk
     THEN [state |-> "suspended", cursors |-> curs, fetched |-> f2, pos |-> p + 1,
           out |-> Some(SerializeOne(src[p + 1])), tr |-> 1, ctx |-> 1, error |-> None]
     ELSE [state |-> "suspended", cursors |-> curs, fetched |-> f2, pos |-> p + 1,
           out |-> None, tr |-> 1, ctx |-> 1, error |-> Some(TransformError)]

\* lines 62-64: one turn of `for obj in iterator`, up to the yield, the end or a raise.
\* The cursor fetches its next chunk when its buffer is empty.
LoopStep(src, curs, f, p, fetchOk, trOk) ==
  LET chunk == curs[Len(curs)].chunk_size
      needFetch == p >= f
      f2 == IF needFetch THEN Min(f + chunk, Len(src)) ELSE f
  IN IF needFetch /\ ~fetchOk
     THEN [state |-> "raised", cursors |-> curs, fetched |-> f, pos |-> p,
           out |-> None, tr |-> 0, ctx |-> 0, error |-> Some(FetchError)]
     ELSE IF p >= Len(src)
     THEN [state |-> "done", cursors |-> curs, fetched |-> f2, pos |-> p,
           out |-> None, tr |-> 0, ctx |-> 0, error |-> None]
     ELSE IF trOk
     THEN [state |-> "suspended", cursors |-> curs, fetched |-> f2, pos |-> p + 1,
           out |-> Some(SerializeOne(src[p + 1])), tr |-> 1, ctx |-> 1, error |-> None]
     ELSE [state |-> "raised", cursors |-> curs, fetched |-> f2, pos |-> p + 1,
           out |-> None, tr |-> 1, ctx |-> 1, error |-> Some(TransformError)]

\* the first next(): get_serializer_class(), the cursor, then the first turn of the loop
SerializedFirst(src, attr, setupOk, c1, c2, g, fetchOk, trOk) ==
  LET oc == OpenCursor(attr, c1, c2, g)
  IN IF ~setupOk
     THEN [state |-> "raised", cursors |-> <<>>, fetched |-> 0, pos |-> 0,
           out |-> None, tr |-> 0, ctx |-> 0, error |-> Some(SetupError)]
     ELSE IF oc.error # None
     THEN [state |-> "raised", cursors |-> oc.cursors, fetched |-> 0, pos |-> 0,
           out |-> None, tr |-> 0, ctx |-> 0, error |-> oc.error]
     ELSE LoopStep(src, oc.cursors, 0, 0, fetchOk, trOk)

\* what one next() on a lazy sequence leaves behind
Resume(r) ==
  /\ gen' = [gen EXCEPT !.state = r.state]
  /\ cursors' = r.cursors
  /\ fetched' = r.fetched
  /\ pos' = r.pos
  /\ delivered' = IF r.out = None THEN delivered ELSE Append(delivered, Val(r.out))
  /\ pulls' = pulls + 1
  /\ lastAdv' = r.pos - pos
  /\ lastTr' = r.tr
  /\ transforms' = transforms + r.tr
  /\ contexts' = contexts + r.ctx
  /\ error' = IF r.error = None THEN error ELSE r.error
  /\ raisedAt' = IF r.error = None THEN raisedAt ELSE "pull"
  /\ UNCHANGED <<inputs, pc, result, source>>

CanPull == pc = "returned" /\ result.kind = "generator" /\ pulls < MaxPulls

\* next() on the generator of _get_serialized_stream
PullSerialized ==
  /\ CanPull
  /\ gen.kind = "serialized"
  /\ \/ /\ gen.state = "created"
        /\ \E setupOk \in BOOLEAN, c1 \in CursorOutcomes, c2 \in CursorOutcomes,
              g \in 1..MaxChunk, fetchOk \in BOOLEAN, trOk \in BOOLEAN :
             Resume(SerializedFirst(source, csv_streaming_chunk_size,
                                    setupOk, c1, c2, g, fetchOk, trOk))
     \/ /\ gen.state = "suspended"
        /\ \E fetchOk \in BOOLEAN, trOk \in BOOLEAN :
             Resume(LoopStep(source, cursors, fetched, pos, fetchOk, trOk))

\* line 31: one turn of (item for item in queryset.values()) over the evaluated queryset
RawNext(src, p) ==
  IF p >= Len(src)
  THEN [state |-> "done", cursors |-> <<>>, fetched |-> Len(src), pos |-> p,
        out |-> None, tr |-> 0, ctx |-> 0, error |-> None]
  ELSE [state |-> "suspended", cursors |-> <<>>, fetched |-> Len(src), pos |-> p + 1,
        out |-> Some(src[p + 1]), tr |-> 0, ctx |-> 0, error |-> None]

\* next() on the raw streaming generator expression
PullRaw ==
  /\ CanPull
  /\ gen.kind = "raw"
  /\ gen.state \in {"created", "suspended"}
  /\ Resume(RawNext(source, pos))

\* next() on a generator that has ended or raised: StopIteration, nothing else
PullFinished ==
  /\ CanPull
  /\ gen.state \in {"done", "raised"}
  /\ pulls' = pulls + 1
  /\ lastAdv' = 0
  /\ lastTr' = 0
  /\ UNCHANGED <<inputs, pc, result, gen, source, cursors, fetched, pos, delivered,
                 transforms, contexts, error, raisedAt>>

\* ------------------------------------- CSVGenericView.apply_rows_limit
\* hasattr(data, "__iter__") alone, str, bytes and dict not set apart
IsLimitableIterable_AnyIterable(kind) ==
  kind \in {"generator", "endless", "tuple", "str", "bytes", "dict"}

\* hasattr(data, "__iter__") and not isinstance(data, (str, bytes, dict))
IsLimitableIterable(kind) == kind \in {"generator", "endless", "tuple"}

\* lines 79-87, the whole call; the generator expression is returned unstarted
apply_rows_limit ==
  /\ view = "generic"
  /\ pc = "init"
  /\ pc' = "returned"
  /\ IF rows_count # None /\ data.kind = "list"
     THEN /\ result' = [oid |-> 2, kind |-> "list", items |-> Slice(data.items, Val(rows_count))]
          /\ UNCHANGED <<gen, source>>
     ELSE IF rows_count # None /\ IsLimitableIterable(data.kind)
     THEN /\ result' = [oid |-> 2, kind |-> "generator", items |-> <<>>]
          /\ gen' = [kind |-> "limited", state |-> "created"]
          /\ source' = data.items
     ELSE /\ result' = data
          /\ UNCHANGED <<gen, source>>
  /\ UNCHANGED <<inputs, cursors, fetched, pos, delivered, pulls, lastAdv, lastTr,
                 transforms, contexts, error, raisedAt>>

\* the filter written `i <= rows_count`
RECURSIVE LimitedNext_Inclusive(_, _, _, _)
LimitedNext_Inclusive(src, endless, i, n) ==
  IF ~endless /\ i >= Len(src)
  THEN [state |-> "done", cursors |-> <<>>, fetched |-> 0, pos |-> i,
        out |-> None, tr |-> 0, ctx |-> 0, error |-> None]
  ELSE IF i <= n
  THEN [state |-> "suspended", cursors |-> <<>>, fetched |-> 0, pos |-> i + 1,
        out |-> Some(src[(i % Len(src)) + 1]), tr |-> 0, ctx |-> 0, error |-> None]
  ELSE IF endless
  THEN [state |-> "running", cursors |-> <<>>, fetched |-> 0, pos |-> i + 1,
        out |-> None, tr |-> 0, ctx |-> 0, error |-> None]
  ELSE LimitedNext_Inclusive(src, endless, i + 1, n)

\* line 86: (item for i, item in enumerate(data) if i < rows_count), one next():
\* upstream items are taken, i counting them, until one passes the filter or the
\* upstream ends.  Over an endless upstream no item passes once i >= n and the
\* upstream never ends: the next() does not return ("running").
RECURSIVE LimitedNext(_, _, _, _)
LimitedNext(src, endless, i, n) ==
  IF ~endless /\ i >= Len(src)
  THEN [state |-> "done", cursors |-> <<>>, fetched |-> 0, pos |-> i,
        out |-> None, tr |-> 0, ctx |-> 0, error |-> None]
  ELSE IF i < n
  THEN [state |-> "suspended", cursors |-> <<>>, fetched |-> 0, pos |-> i + 1,
        out |-> Some(src[(i % Len(src)) + 1]), tr |-> 0, ctx |-> 0, error |-> None]
  ELSE IF endless
  THEN [state |-> "running", cursors |-> <<>>, fetched |-> 0, pos |-> i + 1,
        out |-> None, tr |-> 0, ctx |-> 0, error |-> None]
  ELSE LimitedNext(src, endless, i + 1, n)

\* next() on the generator expression apply_rows_limit returned
PullLimited ==
  /\ CanPull
  /\ gen.kind = "limited"
  /\ gen.state \in {"created", "suspended"}
  /\ Resume(LimitedNext(source, data.kind = "endless", pos, Val(rows_count)))

\* line 86, inside a next() that does not return: the filter rejects one more
\* item of the endless upstream
SpinLimited ==
  /\ gen.kind = "limited"
  /\ gen.state = "running"
  /\ pos < MaxSpin
  /\ pos' = pos + 1
  /\ lastAdv' = lastAdv + 1
  /\ UNCHANGED <<inputs, pc, result, gen, source, cursors, fetched, delivered, pulls,
                 lastTr, transforms, contexts, error, raisedAt>>

Next ==
  \/ get_csv_data
  \/ PullSerialized
  \/ PullRaw
  \/ apply_rows_limit
  \/ PullLimited
  \/ SpinLimited
  \/ PullFinished

Spec == Init /\ [][Next]_vars

\* ================================================================ claims
\* the first n items of s
Prefix(s, n) == [i \in 1..(IF n < Len(s) THEN n ELSE Len(s)) |-> s[i]]

\* the rows a list of records stands for, with and without a transform
RowsOf(objs, ser) ==
  [i \in 1..Len(objs) |-> [src |-> IF ser THEN "serializer" ELSE "values", id |-> objs[i]]]

\* the records of a page: at most `limit` records after the first `offset`
PageOf(objs, offset, limit) ==
  [i \in 1..(IF Len(objs) <= offset THEN 0
             ELSE IF Len(objs) - offset < limit THEN Len(objs) - offset ELSE limit)
     |-> objs[offset + i]]

\* the ValueError queryset.iterator() raises when it needs a chunk_size
Recognised == [type |-> "ValueError", msg |-> NeedsChunkMsg]

ListReturned == view = "list" /\ pc = "returned" /\ ~csv_streaming

Streaming == view = "list" /\ pc = "returned" /\ csv_streaming

DefaultCursorRaised == cursors # <<>> /\ cursors[1].raised # None

\* ---- C1
\* C1: non-streaming, paginator not narrowing, row limit L: get_csv_data returns
\* exactly min(|Q|, L) rows, and they are the first L rows of what the same call
\* returns with no row limit.
C1_LimitIsPrefixOfUnlimited ==
  (ListReturned /\ paginator = None /\ rows_count # None) =>
     /\ Len(result.items) = Min(Len(query), Val(rows_count))
     /\ result.items
          = Prefix(NonStreaming(query, None, serializer_class, paginator).rows, Val(rows_count))

C1_Witness ==
  /\ ListReturned /\ paginator = None /\ rows_count # None
  /\ Val(rows_count) > 0
  /\ Len(query) > Val(rows_count)
  /\ Len(result.items) = Val(rows_count)

\* ---- C2
\* C2 as stated: for every paginator state, a stream pulled to exhaustion has
\* delivered exactly the rows the non-streaming call returns for the same query,
\* row limit and transform, in the same order.
C2_StreamEqualsListAnyPaginator ==
  LET ns == NonStreaming(query, rows_count, serializer_class, paginator)
  IN (Streaming /\ gen.state = "done" /\ ns.ok) => delivered = ns.rows

\* C2 amended: the same, when the paginator does not narrow the query.
C2_StreamEqualsListNoPage ==
  LET ns == NonStreaming(query, rows_count, serializer_class, None)
  IN (Streaming /\ gen.state = "done" /\ paginator = None) => (ns.ok /\ delivered = ns.rows)

C2_Witness ==
  /\ Streaming /\ gen.state = "done" /\ paginator = None
  /\ serializer_class
  /\ rows_count # None
  /\ Len(query) > Val(rows_count)
  /\ Len(delivered) >= 2

\* ---- C3
\* C3: the sequence apply_rows_limit returns for a lazy sequence and a row limit L
\* never consumes more than L+1 upstream items.
C3_ConsumesAtMostLimitPlusOne ==
  (view = "generic" /\ gen.kind = "limited") => pos <= Val(rows_count) + 1

\* ---- C4
\* C4: when the default cursor raises the recognised chunk_size precondition the
\* stream opens a chunked cursor and does not surface the error; the rows it
\* yields are those of the records of the query, in order, all of them once the
\* stream has ended.
C4_FallbackYieldsAllRecords ==
  (DefaultCursorRaised /\ Val(cursors[1].raised) = Recognised) =>
     /\ Len(cursors) = 2
     /\ cursors[2].kind = "chunked"
     /\ cursors[2].chunk_size >= 1
     /\ cursors[2].raised = None =>
          /\ error \in {None, Some(FetchError), Some(TransformError)}
          /\ delivered = Prefix(RowsOf(LimitQueryset(query, rows_count), TRUE), Len(delivered))
          /\ gen.state = "done" => delivered = RowsOf(LimitQueryset(query, rows_count), TRUE)

C4_Witness ==
  /\ DefaultCursorRaised /\ Val(cursors[1].raised) = Recognised
  /\ gen.state = "done"
  /\ error = None
  /\ Len(delivered) >= 2
  /\ cursors[2].chunk_size < Len(delivered)

\* ---- C5
\* C5: when the default cursor raises anything but the recognised precondition,
\* that error is what the pull raises, no chunked cursor is opened and no row is
\* yielded.
C5_OtherErrorsPropagate ==
  (DefaultCursorRaised /\ Val(cursors[1].raised) # Recognised) =>
     /\ error = cursors[1].raised
     /\ raisedAt = "pull"
     /\ gen.state = "raised"
     /\ Len(cursors) = 1
     /\ delivered = <<>>

C5_Witness ==
  /\ DefaultCursorRaised
  /\ Val(cursors[1].raised) = [type |-> "ValueError", msg |-> OtherMsg]
  /\ error = cursors[1].raised
  /\ pulls >= 2

\* ---- C6
\* C6: a transform that cannot be set up makes get_csv_data itself raise; the
\* error is never raised from a pull on the returned sequence.
C6_SetupErrorRaisedByCall ==
  error = Some(SetupError) => raisedAt = "call"

\* ---- C7
\* C7: in streaming mode the records fetched from the store are at most those of
\* the rows pulled so far plus the remainder of one fetch chunk, and none while no
\* cursor is open.
C7_FetchesOnlyWhatIsPulled ==
  Streaming =>
     IF cursors # <<>> /\ cursors[Len(cursors)].raised = None
     THEN fetched <= pos + cursors[Len(cursors)].chunk_size - 1 /\ pos <= pulls
     ELSE fetched = 0

\* ---- C8
\* C8: one pull on any lazy sequence the views return takes at most one item from
\* the upstream and invokes the transform at most once.
C8_OneAdvancePerPull == lastAdv <= 1 /\ lastTr <= 1

\* ---- C9
\* C9: streaming with a row limit L: the sequence draws from the query restricted
\* to its first L records, never fetches more than min(|Q|, L) records, and once
\* pulled to its end has delivered exactly the rows of the first min(|Q|, L)
\* records in store order, each transformed once when a transform is present.
C9_StreamLimitedBeforeFetch ==
  (Streaming /\ rows_count # None) =>
     /\ Len(source) = Min(Len(query), Val(rows_count))
     /\ fetched <= Min(Len(query), Val(rows_count))
     /\ gen.state = "done" =>
          /\ delivered = RowsOf(Prefix(query, Val(rows_count)), serializer_class)
          /\ transforms = IF serializer_class THEN Len(delivered) ELSE 0

C9_Witness ==
  /\ Streaming /\ rows_count # None
  /\ gen.state = "done"
  /\ serializer_class
  /\ Len(query) > Val(rows_count)
  /\ Len(delivered) = Val(rows_count)
  /\ cursors[Len(cursors)].chunk_size < Len(delivered)

\* ---- C10
\* C10: non-streaming with a paginator that narrows the limit-restricted query:
\* the call returns one row per record of the page of that query, in page order,
\* with a transform and without one.
C10_PageOfLimitedQuery ==
  LET limited == Prefix(query, IF rows_count = None THEN Len(query) ELSE Val(rows_count))
      page == PageOf(limited, Val(paginator).offset, Val(paginator).limit)
  IN (view = "list" /\ ~csv_streaming /\ paginator # None /\ pc # "init"
        /\ Len(page) < Len(limited)) =>
       /\ pc = "returned"
       /\ result.items = RowsOf(page, serializer_class)

GenericReturned == view = "generic" /\ pc = "returned"

\* ---- C11
\* C11: apply_rows_limit with a row limit N: a list comes back as a list of its
\* first min(N, length) items; a lazy sequence comes back as a lazy sequence, no
\* upstream item taken by the call, whose rows are upstream items in order and,
\* once it has ended, exactly the first min(N, length) of them.
C11_TruncatesKeepingKind ==
  (GenericReturned /\ rows_count # None) =>
     /\ data.kind = "list" =>
          /\ result.kind = "list"
          /\ result.items = Prefix(data.items, Val(rows_count))
     /\ data.kind = "generator" =>
          /\ result.kind = "generator"
          /\ gen.kind = "limited"
          /\ pulls = 0 => (pos = 0 /\ delivered = <<>>)
          /\ delivered = Prefix(data.items, Len(delivered))
          /\ Len(delivered) <= Val(rows_count)
          /\ gen.state = "done" => delivered = Prefix(data.items, Val(rows_count))

C11_Witness ==
  /\ GenericReturned /\ rows_count # None
  /\ data.kind = "generator"
  /\ gen.state = "done"
  /\ Val(rows_count) > 0
  /\ Len(data.items) > Val(rows_count)
  /\ Len(delivered) = Val(rows_count)

\* a failure of the store or of the transform while the stream is pulled
StreamFailures == {Some(FetchError), Some(TransformError)}

\* ---- C12
\* C12: when the store or the transform fails during the pull for row k, that
\* pull raises the failure, the rows delivered are rows 1..k-1 of the query in
\* order, and no later pull delivers a row or changes the outcome.
C12_FailureEndsStream ==
  /\ [](error \in StreamFailures =>
          /\ gen.state = "raised"
          /\ raisedAt = "pull"
          /\ Len(delivered) < pulls
          /\ delivered = RowsOf(Prefix(source, Len(delivered)), TRUE))
  /\ [][(error = None /\ error' \in StreamFailures) =>
          (delivered' = delivered /\ Len(delivered) = pulls /\ pulls' = pulls + 1)]_vars
  /\ [][(error \in StreamFailures) => (delivered' = delivered /\ error' = error)]_vars

C12_Witness ==
  /\ error = Some(TransformError)
  /\ Len(delivered) >= 1
  /\ Len(delivered) < Len(source)
  /\ pulls >= Len(delivered) + 2

\* ---- C13
\* C13: a stream opens the default cursor and then at most one chunked cursor,
\* the chunked one only after the recognised precondition; when the chunked
\* cursor fails too, with whatever message, that error is raised by the pull and
\* nothing more is opened or yielded.
C13_FallbackAtMostOnce ==
  cursors # <<>> =>
     /\ Len(cursors) <= 2
     /\ cursors[1].kind = "default"
     /\ Len(cursors) = 2 =>
          /\ cursors[1].raised = Some(Recognised)
          /\ cursors[2].kind = "chunked"
          /\ cursors[2].raised # None =>
               /\ error = cursors[2].raised
               /\ raisedAt = "pull"
               /\ gen.state = "raised"
               /\ delivered = <<>>
               /\ fetched = 0

C13_Witness ==
  /\ Len(cursors) = 2
  /\ cursors[2].raised = Some(Recognised)
  /\ error = Some(Recognised)
  /\ source # <<>>
  /\ pulls >= 2

\* ---- C14
\* C14: over an upstream that never ends, the sequence apply_rows_limit returns
\* for row limit L has signalled its end once the consumer has pulled more than
\* L times, having delivered L items.
C14_EndlessUpstreamIsBounded ==
  (GenericReturned /\ gen.kind = "limited" /\ data.kind = "endless"
     /\ pulls > Val(rows_count)) =>
       /\ gen.state = "done"
       /\ Len(delivered) = Val(rows_count)

\* ---- C15
\* C15: over a whole stream with a transform the context is built once, however
\* many rows there are.
C15_OneContextPerStream ==
  (Streaming /\ gen.kind = "serialized") => contexts <= 1

\* ---- C16
\* C16: a chunked cursor is opened only after the default one failed; it is
\* opened with the view's csv_streaming_chunk_size when the attribute is set and
\* with 1000 when it is not.
C16_ChunkSizeOnlyOnFallback ==
  \A i \in 1..Len(cursors) :
     cursors[i].kind = "chunked" =>
        /\ i = 2
        /\ cursors[1].raised # None
        /\ cursors[i].chunk_size
             = IF csv_streaming_chunk_size = None THEN 1000
               ELSE Val(csv_streaming_chunk_size)

C16_Witness ==
  /\ Len(cursors) = 2
  /\ cursors[2].kind = "chunked"
  /\ csv_streaming_chunk_size # None
  /\ cursors[2].chunk_size = Val(csv_streaming_chunk_size)
  /\ cursors[2].chunk_size < Len(delivered)
  /\ gen.state = "done"

\* ---- C17
\* C17: in streaming mode the call to get_csv_data fetches nothing, opens no
\* cursor and invokes no transform, with a transform and without one: before the
\* first pull the store has not been touched.
C17_CallTouchesNoStore ==
  (Streaming /\ pulls = 0) =>
     /\ fetched = 0
     /\ cursors = <<>>
     /\ transforms = 0
     /\ contexts = 0

\* ---- C18
\* C18: apply_rows_limit with no row limit returns the very object it was given,
\* whatever its kind, and takes no item of it; with a row limit it returns str,
\* bytes and dict data as they are.
C18_UntouchedWhenNothingToLimit ==
  (GenericReturned /\ (rows_count = None \/ data.kind \in {"str", "bytes", "dict"})) =>
     /\ result = data
     /\ gen = NoGen
     /\ pos = 0
     /\ delivered = <<>>

C18_Witness ==
  /\ GenericReturned
  /\ rows_count # None
  /\ data.kind \in {"str", "bytes", "dict"}
  /\ Len(data.items) > Val(rows_count)
  /\ result = data

====
